---- MODULE Spec2Model ----
(***************************************************************************)
(* Content pipeline of AyssaHarperHelps: the response parser of            *)
(* generate_content.py, the dashboard merger of update_dashboard.py and    *)
(* the narration loop of generate_audio.py.                                *)
(*                                                                         *)
(* Text is modelled as a sequence of atoms.  An atom is a run of           *)
(* characters that the regular expressions of the code never look inside:  *)
(* a field label ("DAY:", "TITLE:", ...), the section delimiter "---", a   *)
(* blank " ", a newline "\n", a run of digits ("10", "11") or a word       *)
(* ("a").  The Resource fields no checked property reads (category, hook,  *)
(* description, key_points) are left out of the records.                   *)
(***************************************************************************)
EXTENDS Integers, Sequences, FiniteSets, TLC

VARIABLES
    content,        \* parse_claude_response: the model reply being parsed
    start_day,      \* parse_claude_response: its start_day argument (next_day of the caller)
    resources,      \* parse_claude_response: the returned list
    sections_log,   \* one entry per non-blank section, in order: what the loop did with it
    pc,             \* position of the run: how the last generation stage ended
    index_html,     \* the persisted dashboard document index.html
    new_content,    \* the persisted file new_content.json
    pdf_dir,        \* the names of the PDF files written to the working directory
    runs,           \* how many generation runs have completed
    merges,         \* how many merges have rewritten index.html
    html_content,   \* update_dashboard: the document as read at the start of the merge
    ret,            \* the stage that ran last and whether it reported success
    attempts,       \* generate_audio_files: one entry per call of the speech provider, in order
    generated_files,\* generate_audio_files: the returned list
    audio_files     \* the persisted file audio_files.json

vars == <<content, start_day, resources, sections_log, pc,
          index_html, new_content, pdf_dir, runs, merges, html_content, ret,
          attempts, generated_files, audio_files>>

parseVars == <<content, sections_log>>

counters == <<runs, merges>>

audioVars == <<attempts, generated_files, audio_files>>

----------------------------------------------------------------------------
(* Bounds *)

MaxContentLen == 4

MaxReplyLen == 3

MaxMerges == 2

MaxRuns == 2

MaxTitleLen == 3

MaxAudio == 3

----------------------------------------------------------------------------
(* Atoms of text *)

Delim == "---"

Whitespace == {" ", "\n"}

Labels == {"DAY:", "TITLE:", "PASSWORD:", "FULL_CONTENT:"}

Digits == {"10", "11"}

IntOf == [d \in Digits |-> IF d = "10" THEN 10 ELSE 11]

Words == {"a", "b"}

\* the characters of a label before its colon are word characters
LabelWord == [l \in Labels |->
                CASE l = "DAY:" -> "DAY"
                  [] l = "TITLE:" -> "TITLE"
                  [] l = "PASSWORD:" -> "PASSWORD"
                  [] l = "FULL_CONTENT:" -> "FULL_CONTENT"]

Upper(w) == CASE w = "a" -> "A" [] w = "b" -> "B" [] OTHER -> w

\* str.strip(): drop leading and trailing whitespace
RECURSIVE LStrip(_)
LStrip(s) == IF s # <<>> /\ Head(s) \in Whitespace THEN LStrip(Tail(s)) ELSE s

RECURSIVE RStrip(_)
RStrip(s) == IF s # <<>> /\ s[Len(s)] \in Whitespace
             THEN RStrip(SubSeq(s, 1, Len(s) - 1)) ELSE s

Strip(s) == RStrip(LStrip(s))

\* str.split('---'): the pieces between the delimiters, empty pieces included
RECURSIVE SplitFrom(_, _)
SplitFrom(s, piece) ==
    IF s = <<>> THEN <<piece>>
    ELSE IF Head(s) = Delim THEN <<piece>> \o SplitFrom(Tail(s), <<>>)
    ELSE SplitFrom(Tail(s), Append(piece, Head(s)))

Split(s) == SplitFrom(s, <<>>)

----------------------------------------------------------------------------
(* The regular expressions of parse_claude_response *)

NoMatch == <<"<no match>">>

\* a match object of None where the group is converted with int()
NoDay == -1

\* \s* : the first position at or after i that holds no whitespace
RECURSIVE SkipWs(_, _)
SkipWs(s, i) == IF i <= Len(s) /\ s[i] \in Whitespace THEN SkipWs(s, i + 1) ELSE i

\* . without DOTALL stops at a newline: the first position at or after i holding one
RECURSIVE EndOfLine(_, _)
EndOfLine(s, i) == IF i <= Len(s) /\ s[i] # "\n" THEN EndOfLine(s, i + 1) ELSE i

\* \d+ : the value of the run of digits starting at i
RECURSIVE DigitRun(_, _, _)
DigitRun(s, i, acc) ==
    IF i <= Len(s) /\ s[i] \in Digits THEN DigitRun(s, i + 1, acc * 100 + IntOf[s[i]])
    ELSE acc

\* \w+ : the run of word characters starting at i; a label's colon ends it
RECURSIVE WordRun(_, _)
WordRun(s, i) ==
    IF i > Len(s) THEN <<>>
    ELSE IF s[i] \in Words \cup Digits THEN <<s[i]>> \o WordRun(s, i + 1)
    ELSE IF s[i] \in Labels THEN <<LabelWord[s[i]]>>
    ELSE <<>>

\* re.search: the leftmost of the positions at which the pattern matches, 0 for None
FirstMatch(hits) == IF hits = {} THEN 0 ELSE CHOOSE i \in hits : \A j \in hits : i <= j

\* the positions of a label in a section
LabelAt(s, label) == {i \in 1..Len(s) : s[i] = label}

\* re.search(r'DAY:\s*(\d+)', section)
DayMatch(s) ==
    LET i == FirstMatch({i \in LabelAt(s, "DAY:") :
                            SkipWs(s, i + 1) <= Len(s) /\ s[SkipWs(s, i + 1)] \in Digits})
    IN  IF i = 0 THEN NoDay ELSE DigitRun(s, SkipWs(s, i + 1), 0)

\* re.search(r'TITLE:\s*(.+)', section), then group(1).strip()
TitleMatch(s) ==
    LET i == FirstMatch({i \in LabelAt(s, "TITLE:") : \E j \in (i + 1)..Len(s) : s[j] # "\n"})
        j == SkipWs(s, i + 1)
    IN  IF i = 0 THEN NoMatch
        ELSE IF j <= Len(s) THEN Strip(SubSeq(s, j, EndOfLine(s, j) - 1))
        ELSE <<>>

\* re.search(r'PASSWORD:\s*(\w+)', section), then group(1).upper()
PasswordMatch(s) ==
    LET i == FirstMatch({i \in LabelAt(s, "PASSWORD:") : WordRun(s, SkipWs(s, i + 1)) # <<>>})
        w == WordRun(s, SkipWs(s, i + 1))
    IN  IF i = 0 THEN NoMatch ELSE [k \in 1..Len(w) |-> Upper(w[k])]

\* re.search(r'FULL_CONTENT:\s*(.+)', section, DOTALL), then group(1).strip();
\* the later split('---')[0] finds no delimiter inside a section
ContentMatch(s) ==
    LET i == FirstMatch({i \in LabelAt(s, "FULL_CONTENT:") : i < Len(s)})
    IN  IF i = 0 THEN NoMatch ELSE Strip(SubSeq(s, i + 1, Len(s)))

----------------------------------------------------------------------------
(* parse_claude_response *)

Untitled == <<"Untitled">>

ContentNotFound == <<"Content not found.">>

Access == <<"ACCESS">>

\* the fields of one section; counter is day_counter on entry to the iteration
SectionResource(section, counter) ==
    [day          |-> IF DayMatch(section) # NoDay THEN DayMatch(section) ELSE counter,
     title        |-> IF TitleMatch(section) # NoMatch THEN TitleMatch(section) ELSE Untitled,
     password     |-> IF PasswordMatch(section) # NoMatch THEN PasswordMatch(section) ELSE Access,
     full_content |-> IF ContentMatch(section) # NoMatch THEN ContentMatch(section)
                      ELSE ContentNotFound]

\* "Only add if we have minimum required fields": both strings are truthy
MinimumFields(resource) == resource.title # <<>> /\ resource.full_content # <<>>

\* the loop over the sections; the result logs each iteration
RECURSIVE ParseSections(_, _)
ParseSections(sections, day_counter) ==
    IF sections = <<>> THEN <<>>
    ELSE LET section == Head(sections) IN
         IF Strip(section) = <<>> THEN ParseSections(Tail(sections), day_counter)
         ELSE LET fallback == DayMatch(section) = NoDay
                  resource == SectionResource(section, day_counter)
              IN  <<[section  |-> section,
                     fallback |-> fallback,
                     resource |-> resource,
                     appended |-> MinimumFields(resource)]>>
                  \o ParseSections(Tail(sections),
                                   IF fallback THEN day_counter + 1 ELSE day_counter)

ParseLog(text, day) == ParseSections(Split(text), day)

Appended(entry) == entry.appended

RECURSIVE ResourcesOf(_)
ResourcesOf(log) ==
    IF log = <<>> THEN <<>>
    ELSE (IF Appended(Head(log)) THEN <<Head(log).resource>> ELSE <<>>)
         \o ResourcesOf(Tail(log))

parse_claude_response(text, day) == ResourcesOf(ParseLog(text, day))

----------------------------------------------------------------------------
(* The dashboard document *)

\* what stands between the braces of a table: entries, commas and whitespace
Ws == [kind |-> "ws", key |-> <<>>, value |-> <<>>]

Comma == [kind |-> ",", key |-> <<>>, value |-> <<>>]

\* f"day{resource['day']}"
DayKey(day) == <<"day", ToString(day)>>

Entry(day, value) == [kind |-> "entry", key |-> DayKey(day), value |-> value]

\* str.replace(old, new) on a text whose atoms hold no blank and no slash inside
Replace(s, old, new) == [i \in 1..Len(s) |-> IF s[i] = old THEN new ELSE s[i]]

\* the table's file name without the replacement of the slashes
PdfEntryFilename_keeps_slash(resource) ==
    <<"Day_", ToString(resource.day), "_">>
    \o Replace(resource.title, " ", "_")
    \o <<".pdf">>

\* update_pdf_paths_js: f"Day_{day}_{title.replace(' ', '_').replace('/', '_')}.pdf"
PdfEntryFilename(resource) ==
    <<"Day_", ToString(resource.day), "_">>
    \o Replace(Replace(resource.title, " ", "_"), "/", "_")
    \o <<".pdf">>

\* create_professional_pdf: the name of the file it writes
PdfFilename(resource) ==
    <<"Day_", ToString(resource.day), "_">>
    \o Replace(Replace(resource.title, " ", "_"), "/", "_")
    \o <<".pdf">>

NumGradients == 10

\* create_card_html: the card fragment of one resource
create_card_html(resource) ==
    [day      |-> resource.day,
     title    |-> resource.title,
     gradient |-> (resource.day - 1) % NumGradients]

\* r'const <name> = \{([^}]+)\};' finds the table: it is declared, something stands
\* between its braces and no closing brace stands inside a value
Located(table) ==
    /\ table.declared
    /\ table.body # <<>>
    /\ \A i \in 1..Len(table.body) :
          \A k \in 1..Len(table.body[i].value) : table.body[i].value[k] # "}"

\* current.rstrip()
RECURSIVE RStripWs(_)
RStripWs(body) == IF body # <<>> /\ body[Len(body)] = Ws
                  THEN RStripWs(SubSeq(body, 1, Len(body) - 1)) ELSE body

\* .rstrip(',')
RECURSIVE RStripCommas(_)
RStripCommas(body) == IF body # <<>> /\ body[Len(body)] = Comma
                      THEN RStripCommas(SubSeq(body, 1, Len(body) - 1)) ELSE body

\* ',\n'.join(entries), each entry behind its indentation
RECURSIVE JoinEntries(_)
JoinEntries(entries) ==
    IF entries = <<>> THEN <<>>
    ELSE IF Len(entries) = 1 THEN <<Ws, Head(entries)>>
    ELSE <<Ws, Head(entries), Comma, Ws>> \o JoinEntries(Tail(entries))

\* the text put between the braces: "\n" + stripped + ",\n" + joined + "\n        "
AppendEntries(body, entries) ==
    <<Ws>> \o RStripCommas(RStripWs(body)) \o <<Comma, Ws>> \o JoinEntries(entries) \o <<Ws>>

\* the new password entries put in front of the current ones
update_passwords_js_prepends(table, rs) ==
    IF ~Located(table) THEN table
    ELSE [table EXCEPT !.body =
            AppendEntries(JoinEntries([i \in 1..Len(rs) |-> Entry(rs[i].day, rs[i].password)]),
                          SelectSeq(table.body, LAMBDA atom : atom.kind = "entry"))]

update_passwords_js(table, rs) ==
    IF ~Located(table) THEN table
    ELSE [table EXCEPT !.body =
            AppendEntries(table.body, [i \in 1..Len(rs) |-> Entry(rs[i].day, rs[i].password)])]

\* the table rewritten from the new entries alone
update_pdf_paths_js_overwrites(table, rs) ==
    IF ~Located(table) THEN table
    ELSE [table EXCEPT !.body =
            AppendEntries(<<>>, [i \in 1..Len(rs) |-> Entry(rs[i].day, PdfEntryFilename(rs[i]))])]

update_pdf_paths_js(table, rs) ==
    IF ~Located(table) THEN table
    ELSE [table EXCEPT !.body =
            AppendEntries(table.body, [i \in 1..Len(rs) |-> Entry(rs[i].day, PdfEntryFilename(rs[i]))])]

\* each new card put in front of the cards of the grid
RECURSIVE AppendCards_in_front(_, _)
AppendCards_in_front(cards, rs) ==
    IF rs = <<>> THEN cards
    ELSE AppendCards_in_front(<<create_card_html(Head(rs))>> \o cards, Tail(rs))

\* days_grid.append(new_card) for each resource in turn
RECURSIVE AppendCards(_, _)
AppendCards(cards, rs) ==
    IF rs = <<>> THEN cards
    ELSE AppendCards(Append(cards, create_card_html(Head(rs))), Tail(rs))

\* a merge that leaves out the resources whose day already has a card
Merged_skips_known_days(doc, rs) ==
    LET known(r) == \E i \in 1..Len(doc.cards) : doc.cards[i].day = r.day
        fresh == SelectSeq(rs, LAMBDA r : ~known(r))
    IN  [doc EXCEPT !.cards = AppendCards(doc.cards, fresh),
                    !.passwords = update_passwords_js(doc.passwords, fresh),
                    !.pdfFiles = update_pdf_paths_js(doc.pdfFiles, fresh)]

\* the document update_dashboard writes back
Merged(doc, rs) ==
    [doc EXCEPT !.cards = AppendCards(doc.cards, rs),
                !.passwords = update_passwords_js(doc.passwords, rs),
                !.pdfFiles = update_pdf_paths_js(doc.pdfFiles, rs)]

\* re.findall(r'Day (\d+)', content): the cards are where the document says "Day N"
DaysFound(doc) == {doc.cards[i].day : i \in 1..Len(doc.cards)}

Max(S) == CHOOSE x \in S : \A y \in S : y <= x

DefaultNextDay == 11

\* the day behind the last card instead of the day behind the highest one
get_next_day_number_after_last_card(doc) ==
    IF doc.exists /\ doc.cards # <<>> THEN doc.cards[Len(doc.cards)].day + 1 ELSE DefaultNextDay

get_next_day_number(doc) ==
    IF doc.exists /\ DaysFound(doc) # {} THEN Max(DaysFound(doc)) + 1 ELSE DefaultNextDay

----------------------------------------------------------------------------
(* Initial documents *)

\* the last day published before the first run: the default next day follows it
FirstDay == DefaultNextDay - 1

FirstResource == [day |-> FirstDay, title |-> <<"a">>, password |-> <<"FOCUS">>,
                  full_content |-> <<"a">>]

NoTable == [declared |-> FALSE, body |-> <<>>]

TableOf(entries) ==
    [declared |-> TRUE,
     body |-> IF entries = <<>> THEN <<Ws>> ELSE JoinEntries(entries) \o <<Ws>>]

\* a document holding n cards of FirstResource, with or without its grid and tables
Document(grid, pw, pdf, n) ==
    [exists |-> TRUE, days_grid |-> grid,
     cards |-> [i \in 1..n |-> create_card_html(FirstResource)],
     passwords |-> IF pw THEN TableOf([i \in 1..n |-> Entry(FirstDay, FirstResource.password)])
                   ELSE NoTable,
     pdfFiles |-> IF pdf THEN TableOf([i \in 1..n |-> Entry(FirstDay, PdfEntryFilename(FirstResource))])
                  ELSE NoTable]

NoDocument ==
    [exists |-> FALSE, days_grid |-> FALSE, cards |-> <<>>,
     passwords |-> NoTable, pdfFiles |-> NoTable]

\* no index.html; one without the grid (the cards live in the grid: it holds none);
\* one with an empty grid; one card with each table present or absent
InitialDocs ==
    {NoDocument, Document(FALSE, TRUE, TRUE, 0), Document(TRUE, TRUE, TRUE, 0)}
    \cup {Document(TRUE, pw, pdf, 1) : pw \in BOOLEAN, pdf \in BOOLEAN}

NoFile == [exists |-> FALSE, resources |-> <<>>]

NoRet == [op |-> "none", ok |-> FALSE]

NoAudioFile == [exists |-> FALSE, files |-> <<>>]

----------------------------------------------------------------------------
(* Specification of the parser alone: every reply up to MaxContentLen atoms *)

ParseAtoms == {Delim, "\n", " ", "DAY:", "TITLE:", "PASSWORD:", "FULL_CONTENT:", "11", "a"}

StartDays == {11, 12}

Texts(atoms, n) == UNION {[1..k -> atoms] : k \in 0..n}

ParseInit ==
    /\ content \in Texts(ParseAtoms, MaxContentLen)
    /\ start_day \in StartDays
    /\ resources = <<>>
    /\ sections_log = <<>>
    /\ pc = "ready"
    /\ index_html = NoDocument
    /\ new_content = NoFile
    /\ pdf_dir = {}
    /\ runs = 0
    /\ merges = 0
    /\ html_content = index_html
    /\ ret = NoRet
    /\ attempts = <<>>
    /\ generated_files = <<>>
    /\ audio_files = NoAudioFile

Parse ==
    /\ pc = "ready"
    /\ sections_log' = ParseLog(content, start_day)
    /\ resources' = parse_claude_response(content, start_day)
    /\ pc' = "parsed"
    /\ UNCHANGED <<content, start_day, index_html, new_content, pdf_dir, counters, html_content, ret,
                   audioVars>>

ParseNext == Parse

ParseSpec == ParseInit /\ [][ParseNext]_vars

----------------------------------------------------------------------------
(* Properties of parse_claude_response, checked under ParseSpec *)

FallbackSections == {i \in 1..Len(sections_log) : sections_log[i].fallback}

\* C2: the days given to the sections without a parsable DAY field start at
\* start_day, increase strictly in section order, and none of them equals the
\* day of another record the same parse produced (explicit DAY included).
C2_FallbackDaysNeverCollide ==
    pc = "parsed" =>
        /\ \A i \in FallbackSections :
              (\A j \in FallbackSections : i <= j) => sections_log[i].resource.day = start_day
        /\ \A i, j \in FallbackSections :
              i < j => sections_log[i].resource.day < sections_log[j].resource.day
        /\ \A i \in FallbackSections : \A j \in 1..Len(sections_log) :
              (j # i /\ sections_log[j].appended)
                  => sections_log[j].resource.day # sections_log[i].resource.day

HasLabel(section, label) == \E k \in 1..Len(section) : section[k] = label

\* C4: a section is appended only with a non-empty title and a full_content that
\* is not the sentinel; a section without a FULL_CONTENT field is dropped.
C4_OnlyCompleteSectionsAppended ==
    pc = "parsed" =>
        \A i \in 1..Len(sections_log) :
            /\ sections_log[i].appended =>
                  /\ sections_log[i].resource.title # <<>>
                  /\ sections_log[i].resource.full_content # ContentNotFound
            /\ ~HasLabel(sections_log[i].section, "FULL_CONTENT:") => ~sections_log[i].appended

\* a section with both a title and a full-content body
ValidSection(section) ==
    /\ TitleMatch(section) \notin {NoMatch, <<>>}
    /\ ContentMatch(section) \notin {NoMatch, <<>>}

NoValidSection(text) == \A i \in 1..Len(Split(text)) : ~ValidSection(Split(text)[i])

\* C9: a text without any valid section, the empty text included, parses to the
\* empty list.
C9_NoValidSectionGivesEmptyList ==
    (pc = "parsed" /\ NoValidSection(content)) => resources = <<>>

----------------------------------------------------------------------------
(* The pipeline: generate_content.py, then update_dashboard.py, run after run *)

ReplyAtoms == {Delim, "DAY:", "10"}

Init ==
    /\ index_html \in InitialDocs
    /\ new_content = NoFile
    /\ pdf_dir = {}
    /\ runs = 0
    /\ merges = 0
    /\ html_content = index_html
    /\ ret = NoRet
    /\ attempts = <<>>
    /\ generated_files = <<>>
    /\ audio_files = NoAudioFile
    /\ start_day = 0
    /\ resources = <<>>
    /\ content = <<>>
    /\ sections_log = <<>>
    /\ pc = "idle"

\* the model replies of the pipeline runs
Replies == Texts(ReplyAtoms, MaxReplyLen) \cup {<<"TITLE:", "}">>}

\* generate_new_content up to its return: next day, parse, PDFs, new_content.json
Generate(next_day, parsed) ==
    /\ runs < MaxRuns
    /\ runs' = runs + 1
    /\ start_day' = next_day
    /\ resources' = parsed
    /\ pdf_dir' = pdf_dir \cup {PdfFilename(parsed[i]) : i \in 1..Len(parsed)}
    /\ new_content' = [exists |-> TRUE, resources |-> parsed]
    /\ ret' = [op |-> "generate_new_content", ok |-> parsed # <<>>]
    /\ pc' = "generated"
    /\ UNCHANGED <<index_html, html_content, merges, parseVars, audioVars>>

\* one run for every reply the provider may send
generate_new_content ==
    \E next_day \in {get_next_day_number(index_html)} :
        \E parsed \in {parse_claude_response(text, next_day) : text \in Replies} :
            Generate(next_day, parsed)

\* ANTHROPIC_API_KEY or trending_content.json is missing: return [] at once
generate_no_input ==
    /\ ret' = [op |-> "generate_new_content", ok |-> FALSE]
    /\ pc' = "aborted"
    /\ UNCHANGED <<index_html, new_content, pdf_dir, counters, html_content, start_day, resources,
                   parseVars, audioVars>>

\* a provider failure that still writes new_content.json, with no resource in it
generate_api_error_clears_file ==
    /\ start_day' = get_next_day_number(index_html)
    /\ new_content' = [exists |-> TRUE, resources |-> <<>>]
    /\ ret' = [op |-> "generate_new_content", ok |-> FALSE]
    /\ pc' = "aborted"
    /\ UNCHANGED <<index_html, pdf_dir, counters, html_content, resources, parseVars, audioVars>>

\* the provider call raises: return [] after the next day was determined
generate_api_error ==
    /\ start_day' = get_next_day_number(index_html)
    /\ ret' = [op |-> "generate_new_content", ok |-> FALSE]
    /\ pc' = "aborted"
    /\ UNCHANGED <<index_html, new_content, pdf_dir, counters, html_content, resources, parseVars,
                   audioVars>>

\* update_dashboard that goes on without the days grid
update_dashboard_ignores_missing_grid ==
    IF ~new_content.exists \/ ~index_html.exists THEN
        /\ ret' = [op |-> "update_dashboard", ok |-> FALSE]
        /\ UNCHANGED <<index_html, new_content, pdf_dir, counters, html_content, start_day,
                       resources, parseVars, pc, audioVars>>
    ELSE
        /\ merges < MaxMerges
        /\ merges' = merges + 1
        /\ html_content' = index_html
        /\ index_html' = Merged(index_html, new_content.resources)
        /\ ret' = [op |-> "update_dashboard", ok |-> TRUE]
        /\ UNCHANGED <<new_content, pdf_dir, runs, start_day, resources, parseVars, pc, audioVars>>

\* update_dashboard that gives up when the passwords table is not found
update_dashboard_needs_passwords ==
    IF ~new_content.exists \/ ~index_html.exists THEN
        /\ ret' = [op |-> "update_dashboard", ok |-> FALSE]
        /\ UNCHANGED <<index_html, new_content, pdf_dir, counters, html_content, start_day,
                       resources, parseVars, pc, audioVars>>
    ELSE IF ~index_html.days_grid \/ ~Located(index_html.passwords) THEN
        /\ html_content' = index_html
        /\ ret' = [op |-> "update_dashboard", ok |-> FALSE]
        /\ UNCHANGED <<index_html, new_content, pdf_dir, counters, start_day, resources, parseVars, pc, audioVars>>
    ELSE
        /\ merges < MaxMerges
        /\ merges' = merges + 1
        /\ html_content' = index_html
        /\ index_html' = Merged(index_html, new_content.resources)
        /\ ret' = [op |-> "update_dashboard", ok |-> TRUE]
        /\ UNCHANGED <<new_content, pdf_dir, runs, start_day, resources, parseVars, pc, audioVars>>

\* update_dashboard, from reading new_content.json to writing index.html
update_dashboard ==
    IF ~new_content.exists \/ ~index_html.exists THEN
        /\ ret' = [op |-> "update_dashboard", ok |-> FALSE]
        /\ UNCHANGED <<index_html, new_content, pdf_dir, counters, html_content, start_day, resources,
                       parseVars, pc, audioVars>>
    ELSE IF ~index_html.days_grid THEN
        /\ html_content' = index_html
        /\ ret' = [op |-> "update_dashboard", ok |-> FALSE]
        /\ UNCHANGED <<index_html, new_content, pdf_dir, counters, start_day, resources, parseVars, pc, audioVars>>
    ELSE
        /\ merges < MaxMerges
        /\ merges' = merges + 1
        /\ html_content' = index_html
        /\ index_html' = Merged(index_html, new_content.resources)
        /\ ret' = [op |-> "update_dashboard", ok |-> TRUE]
        /\ UNCHANGED <<new_content, pdf_dir, runs, start_day, resources, parseVars, pc, audioVars>>

Next ==
    \/ generate_new_content
    \/ generate_no_input
    \/ generate_api_error
    \/ update_dashboard

Spec == Init /\ [][Next]_vars

----------------------------------------------------------------------------
(* Reading the document back *)

IsEntry(atom) == atom.kind = "entry"

\* the entries of a table, in the order they stand in it
Entries(table) == SelectSeq(table.body, IsEntry)

HasEntry(table, day) ==
    \E k \in 1..Len(table.body) : IsEntry(table.body[k]) /\ table.body[k].key = DayKey(day)

IsNoWs(atom) == atom # Ws

\* entry , entry , ... entry with at most one comma behind the last one
CommaSeparated(table) ==
    LET body == SelectSeq(table.body, IsNoWs)
    IN  \A k \in 1..Len(body) : IF k % 2 = 1 THEN IsEntry(body[k]) ELSE body[k] = Comma

PasswordEntries(rs) == [i \in 1..Len(rs) |-> Entry(rs[i].day, rs[i].password)]

CardsOf(rs) == [i \in 1..Len(rs) |-> create_card_html(rs[i])]

\* every card has its entry in both tables, and no two cards share a day
Consistent(doc) ==
    /\ \A i \in 1..Len(doc.cards) :
          HasEntry(doc.passwords, doc.cards[i].day) /\ HasEntry(doc.pdfFiles, doc.cards[i].day)
    /\ \A i, j \in 1..Len(doc.cards) : i # j => doc.cards[i].day # doc.cards[j].day

StrictlyIncreasingDays(rs) == \A i, j \in 1..Len(rs) : i < j => rs[i].day < rs[j].day

\* the last stage to run was a merge that rewrote index.html
MergeDone == ret.op = "update_dashboard" /\ ret.ok

----------------------------------------------------------------------------
(* Properties of the pipeline, checked under Spec *)

\* C1: from a document that declares both tables and is consistent, every
\* sequence of merges leaves the document consistent: each card's day has an
\* entry in both tables and no two cards share a day.
C1_DashboardStaysConsistent ==
    (index_html.passwords.declared /\ index_html.pdfFiles.declared) => Consistent(index_html)

\* C3: the days of the records a generation run produces increase strictly in
\* output order and none of them is a day the dashboard document already holds.
C3_RunDaysIncreasingAndFresh ==
    (ret.op = "generate_new_content" /\ ret.ok) =>
        /\ StrictlyIncreasingDays(new_content.resources)
        /\ \A i \in 1..Len(new_content.resources) :
              new_content.resources[i].day \notin DaysFound(index_html)

\* C5: on a document without the days-grid container update_dashboard returns
\* False and index.html stays as it was read: no card, no table entry is written.
C5_NoGridFailsWithoutWriting ==
    (ret.op = "update_dashboard" /\ new_content.exists /\ index_html.exists
        /\ ~html_content.days_grid) =>
        /\ ~ret.ok
        /\ index_html = html_content
        /\ index_html \in InitialDocs

C5_Witness ==
    /\ ret.op = "update_dashboard" /\ ~ret.ok
    /\ index_html.exists /\ ~index_html.days_grid
    /\ new_content.exists /\ new_content.resources # <<>>

\* C6: a passwords table that cannot be located does not fail the merge: with
\* both files and the grid present update_dashboard succeeds, every new card is
\* appended, the passwords declaration is left alone, and a located pdfFiles
\* table receives the entry of every new Resource.
C6_MissingPasswordsTableNotFatal ==
    (ret.op = "update_dashboard" /\ new_content.exists /\ index_html.exists
        /\ html_content.days_grid /\ ~Located(html_content.passwords)) =>
        /\ ret.ok
        /\ index_html.cards = html_content.cards \o CardsOf(new_content.resources)
        /\ index_html.passwords = html_content.passwords
        /\ Located(html_content.pdfFiles) =>
              \A i \in 1..Len(new_content.resources) :
                  Entries(index_html.pdfFiles)[Len(Entries(html_content.pdfFiles)) + i].key
                      = DayKey(new_content.resources[i].day)

C6_Witness ==
    /\ MergeDone
    /\ ~Located(html_content.passwords)
    /\ Located(html_content.pdfFiles)
    /\ Len(new_content.resources) = 2
    /\ Len(index_html.cards) = Len(html_content.cards) + 2
    /\ Len(Entries(index_html.pdfFiles)) = Len(Entries(html_content.pdfFiles)) + 2

\* C7: on a located passwords table and a non-empty list of new Resources the
\* table afterwards holds the prior entries, in their order and unchanged, and
\* then one dayN: 'password' entry per new Resource in the order given; a table
\* whose prior entries were separated by single commas stays so.
C7_PasswordsAppendedInOrder ==
    (MergeDone /\ Located(html_content.passwords) /\ new_content.resources # <<>>) =>
        /\ Entries(index_html.passwords)
              = Entries(html_content.passwords) \o PasswordEntries(new_content.resources)
        /\ (Entries(html_content.passwords) # <<>> /\ CommaSeparated(html_content.passwords))
              => CommaSeparated(index_html.passwords)

C7_Witness ==
    /\ MergeDone
    /\ Located(html_content.passwords)
    /\ Entries(html_content.passwords) # <<>>
    /\ Len(new_content.resources) = 2
    /\ new_content.resources[1].day # new_content.resources[2].day
    /\ Len(Entries(index_html.passwords)) = Len(Entries(html_content.passwords)) + 2

\* C10: update_dashboard on an empty resource list ends without an error and
\* leaves the cards and the entries of both tables exactly as they were.
C10_EmptyListIsNoOp ==
    (ret.op = "update_dashboard" /\ new_content.exists /\ new_content.resources = <<>>) =>
        /\ index_html.cards = html_content.cards
        /\ Entries(index_html.passwords) = Entries(html_content.passwords)
        /\ Entries(index_html.pdfFiles) = Entries(html_content.pdfFiles)
        /\ (index_html.exists /\ index_html.days_grid) => ret.ok

C10_Witness ==
    /\ MergeDone
    /\ new_content.resources = <<>>
    /\ index_html.cards # <<>>
    /\ Located(html_content.passwords) /\ Located(html_content.pdfFiles)
    /\ index_html # html_content

----------------------------------------------------------------------------
(* Specification of the file names: one Resource with every title up to       *)
(* MaxTitleLen atoms, its PDF written by the generator and its entry merged   *)

TitleAtoms == {"a", " ", "/", "}"}

FileDays == {7, 11}

FileInit ==
    /\ \E day \in FileDays : \E title \in Texts(TitleAtoms, MaxTitleLen) \ {<<>>} :
          resources = <<[day |-> day, title |-> title, password |-> Access,
                         full_content |-> <<"a">>]>>
    /\ start_day = DefaultNextDay
    /\ index_html = Document(TRUE, TRUE, TRUE, 1)
    /\ new_content = NoFile
    /\ pdf_dir = {}
    /\ runs = 0
    /\ merges = 0
    /\ html_content = index_html
    /\ ret = NoRet
    /\ attempts = <<>>
    /\ generated_files = <<>>
    /\ audio_files = NoAudioFile
    /\ content = <<>>
    /\ sections_log = <<>>
    /\ pc = "parsed"

\* create_professional_pdf: the file it writes for one resource
create_professional_pdf(resource) == pdf_dir' = pdf_dir \cup {PdfFilename(resource)}

\* the end of generate_new_content: the PDFs, then new_content.json
write_outputs ==
    /\ pc = "parsed"
    /\ create_professional_pdf(resources[1])
    /\ new_content' = [exists |-> TRUE, resources |-> resources]
    /\ ret' = [op |-> "generate_new_content", ok |-> TRUE]
    /\ pc' = "saved"
    /\ UNCHANGED <<index_html, html_content, counters, start_day, resources, parseVars, audioVars>>

FileNext == write_outputs \/ update_dashboard

FileSpec == FileInit /\ [][FileNext]_vars

\* "Day_" + day + "_" + title with every space and every '/' replaced by '_' + ".pdf"
ExpectedPdfName(day, title) ==
    <<"Day_", ToString(day), "_">>
    \o [i \in 1..Len(title) |-> IF title[i] \in {" ", "/"} THEN "_" ELSE title[i]]
    \o <<".pdf">>

\* C8: the name under which create_professional_pdf writes the PDF of a
\* (day, title) pair is the name update_pdf_paths_js records for that day, and
\* it is "Day_" + day + "_" + title with spaces and slashes made '_' + ".pdf".
C8_PdfNameIsTableEntry ==
    (pc = "saved" /\ MergeDone) =>
        /\ pdf_dir = {ExpectedPdfName(resources[1].day, resources[1].title)}
        /\ Located(html_content.pdfFiles) => HasEntry(index_html.pdfFiles, resources[1].day)
        /\ \A k \in 1..Len(index_html.pdfFiles.body) :
              index_html.pdfFiles.body[k].key = DayKey(resources[1].day)
                  => index_html.pdfFiles.body[k].value \in pdf_dir

C8_Witness ==
    /\ pc = "saved" /\ MergeDone
    /\ \E i, j \in 1..Len(resources[1].title) :
          resources[1].title[i] = " " /\ resources[1].title[j] = "/"
    /\ HasEntry(index_html.pdfFiles, resources[1].day)

----------------------------------------------------------------------------
(* generate_audio.py: one narration per Resource of new_content.json.  The   *)
(* speech provider answers each call with the audio or with an exception.    *)

\* title.replace(' ', '_').replace('/', '_').replace(':', '').replace('?', '') + ".mp3"
AudioFilename(resource) ==
    SelectSeq(Replace(Replace(resource.title, " ", "_"), "/", "_"),
              LAMBDA atom : atom \notin {":", "?"})
    \o <<".mp3">>

\* the loop that ends at the first exception of the provider
RECURSIVE AudioLoop_aborts(_, _, _)
AudioLoop_aborts(rs, outcome, i) ==
    IF i > Len(rs) THEN <<>>
    ELSE <<[resource |-> rs[i], succeeded |-> outcome[i]]>>
         \o (IF outcome[i] THEN AudioLoop_aborts(rs, outcome, i + 1) ELSE <<>>)

\* for i, resource in enumerate(resources, 1): the try block runs for each one;
\* outcome[i] tells whether client.generate and save returned or raised
RECURSIVE AudioLoop(_, _, _)
AudioLoop(rs, outcome, i) ==
    IF i > Len(rs) THEN <<>>
    ELSE <<[resource |-> rs[i], succeeded |-> outcome[i]]>> \o AudioLoop(rs, outcome, i + 1)

\* generated_files.append({...}) at the end of the try block; except: continue
RECURSIVE GeneratedFiles(_)
GeneratedFiles(log) ==
    IF log = <<>> THEN <<>>
    ELSE (IF Head(log).succeeded
          THEN <<[day      |-> Head(log).resource.day,
                  title    |-> Head(log).resource.title,
                  filename |-> AudioFilename(Head(log).resource)]>>
          ELSE <<>>)
         \o GeneratedFiles(Tail(log))

AudioDays == {11, 12}

AudioTitles == {<<"a">>, <<"a", ":", " ", "b">>}

AudioResources ==
    {[day |-> day, title |-> title, password |-> Access, full_content |-> <<"a">>] :
        day \in AudioDays, title \in AudioTitles}

AudioInit ==
    /\ new_content \in {NoFile} \cup
          {[exists |-> TRUE, resources |-> rs] :
              rs \in UNION {[1..k -> AudioResources] : k \in 0..MaxAudio}}
    /\ resources = new_content.resources
    /\ start_day = DefaultNextDay
    /\ index_html = NoDocument
    /\ pdf_dir = {}
    /\ runs = 0
    /\ merges = 0
    /\ html_content = index_html
    /\ ret = NoRet
    /\ attempts = <<>>
    /\ generated_files = <<>>
    /\ audio_files = NoAudioFile
    /\ content = <<>>
    /\ sections_log = <<>>
    /\ pc = "idle"

\* ELEVENLABS_API_KEY is missing: return [] before anything is read or written
generate_audio_no_key ==
    /\ attempts' = <<>>
    /\ generated_files' = <<>>
    /\ ret' = [op |-> "generate_audio_files", ok |-> FALSE]
    /\ pc' = "audio_aborted"
    /\ UNCHANGED <<audio_files, index_html, new_content, pdf_dir, counters, html_content,
                   start_day, resources, parseVars>>

\* generate_audio_files with the key: load new_content.json, the loop, audio_files.json
generate_audio_files ==
    IF ~new_content.exists THEN
        /\ attempts' = <<>>
        /\ generated_files' = <<>>
        /\ ret' = [op |-> "generate_audio_files", ok |-> FALSE]
        /\ pc' = "audio_aborted"
        /\ UNCHANGED <<audio_files, index_html, new_content, pdf_dir, counters, html_content,
                       start_day, resources, parseVars>>
    ELSE
        \E outcome \in [1..Len(new_content.resources) -> BOOLEAN] :
            /\ attempts' = AudioLoop(new_content.resources, outcome, 1)
            /\ generated_files' = GeneratedFiles(attempts')
            /\ audio_files' = [exists |-> TRUE, files |-> generated_files']
            /\ ret' = [op |-> "generate_audio_files", ok |-> generated_files' # <<>>]
            /\ pc' = "audio_done"
            /\ UNCHANGED <<index_html, new_content, pdf_dir, counters, html_content,
                           start_day, resources, parseVars>>

AudioNext == generate_audio_files \/ generate_audio_no_key

AudioSpec == AudioInit /\ [][AudioNext]_vars

IsSucceeded(attempt) == attempt.succeeded

\* C11: a failure of the speech provider for one Resource does not end the
\* batch: every Resource of new_content.json is attempted, in input order, and
\* the returned list and audio_files.json hold exactly the Resources whose
\* synthesis succeeded, in their input order.
C11_FailureSkipsOneResource ==
    pc = "audio_done" =>
        /\ Len(attempts) = Len(new_content.resources)
        /\ \A i \in 1..Len(attempts) : attempts[i].resource = new_content.resources[i]
        /\ Len(generated_files) = Len(SelectSeq(attempts, IsSucceeded))
        /\ \A k \in 1..Len(generated_files) :
              /\ generated_files[k].day = SelectSeq(attempts, IsSucceeded)[k].resource.day
              /\ generated_files[k].title = SelectSeq(attempts, IsSucceeded)[k].resource.title
        /\ audio_files.exists
        /\ audio_files.files = generated_files

C11_Witness ==
    /\ pc = "audio_done"
    /\ Len(attempts) = 3
    /\ ~attempts[1].succeeded /\ attempts[2].succeeded /\ attempts[3].succeeded
    /\ attempts[2].resource # attempts[3].resource
    /\ Len(generated_files) = 2
    /\ generated_files[1].day = attempts[2].resource.day
    /\ generated_files[2].title = attempts[3].resource.title

----------------------------------------------------------------------------
(* Properties of the merge order and of repeated days, checked under Spec *)

\* how many cards of a document show a day
CardsOfDay(doc, day) == Cardinality({i \in 1..Len(doc.cards) : doc.cards[i].day = day})

\* how many entries of a table stand under the key of a day
EntriesOfDay(table, day) ==
    Cardinality({k \in 1..Len(table.body) :
                    IsEntry(table.body[k]) /\ table.body[k].key = DayKey(day)})

\* how many resources of a list carry a day
ResourcesOfDay(rs, day) == Cardinality({i \in 1..Len(rs) : rs[i].day = day})

\* C12: the merge appends without looking for the day: for every new Resource
\* whose day already has a card, the document afterwards holds one more card of
\* that day per such Resource, and every located table one more entry under
\* that day's key per such Resource.
C12_DuplicateDayIsAppended ==
    MergeDone =>
        \A i \in 1..Len(new_content.resources) :
            LET day == new_content.resources[i].day
                n == ResourcesOfDay(new_content.resources, day)
            IN  CardsOfDay(html_content, day) > 0 =>
                    /\ CardsOfDay(index_html, day) = CardsOfDay(html_content, day) + n
                    /\ Located(html_content.passwords) =>
                          EntriesOfDay(index_html.passwords, day)
                              = EntriesOfDay(html_content.passwords, day) + n
                    /\ Located(html_content.pdfFiles) =>
                          EntriesOfDay(index_html.pdfFiles, day)
                              = EntriesOfDay(html_content.pdfFiles, day) + n

C12_Witness ==
    /\ MergeDone
    /\ Located(html_content.passwords) /\ Located(html_content.pdfFiles)
    /\ \E i \in 1..Len(new_content.resources) :
          LET day == new_content.resources[i].day
          IN  /\ CardsOfDay(html_content, day) = 1
              /\ CardsOfDay(index_html, day) = 2
              /\ EntriesOfDay(index_html.passwords, day) = 2
              /\ EntriesOfDay(index_html.pdfFiles, day) = 2

\* C13: a merge appends one card per new Resource, in the order the Resources
\* stand in new_content.json, behind all the cards the grid already held; the
\* prior cards keep their content and their order.
C13_CardsAppendedInOrder ==
    MergeDone =>
        /\ Len(index_html.cards) = Len(html_content.cards) + Len(new_content.resources)
        /\ SubSeq(index_html.cards, 1, Len(html_content.cards)) = html_content.cards
        /\ \A i \in 1..Len(new_content.resources) :
              index_html.cards[Len(html_content.cards) + i]
                  = create_card_html(new_content.resources[i])

C13_Witness ==
    /\ MergeDone
    /\ html_content.cards # <<>>
    /\ Len(new_content.resources) = 2
    /\ new_content.resources[1].day < new_content.resources[2].day
    /\ index_html.cards[Len(html_content.cards) + 1].day = new_content.resources[1].day
    /\ index_html.cards[Len(html_content.cards) + 2].day = new_content.resources[2].day
    /\ index_html.cards[1] = html_content.cards[1]

\* C14: after any sequence of merges get_next_day_number gives a number above
\* the day of every card of the document, one more than the highest day found;
\* it gives 11 for a document that is missing or shows no day; and that number
\* is the start day of the generation run that reads the document.
C14_NextDayAboveEveryCard ==
    /\ \A i \in 1..Len(index_html.cards) :
          get_next_day_number(index_html) > index_html.cards[i].day
    /\ index_html.cards # <<>> =>
          /\ get_next_day_number(index_html) - 1 \in DaysFound(index_html)
          /\ \A d \in DaysFound(index_html) : d < get_next_day_number(index_html)
    /\ (~index_html.exists \/ index_html.cards = <<>>) => get_next_day_number(index_html) = 11
    /\ pc = "generated" /\ ret.op = "generate_new_content" =>
          start_day = get_next_day_number(index_html)

C14_Witness ==
    /\ merges = 2
    /\ pc = "generated" /\ ret.op = "generate_new_content"
    /\ Len(index_html.cards) >= 3
    /\ index_html.cards[1].day < index_html.cards[2].day
    /\ start_day = index_html.cards[2].day + 1
    /\ start_day > 11

\* C15: a generation stage that aborts returns the empty result and leaves
\* new_content.json as the last completed run wrote it (or missing); the merge
\* that runs after it appends the cards of that run's Resources, a second time
\* when the grid already ended with them.
C15_AbortedRunIsMergedAgain ==
    pc = "aborted" =>
        /\ ret.op = "generate_new_content" => ~ret.ok
        /\ new_content = IF runs = 0 THEN NoFile
                         ELSE [exists |-> TRUE, resources |-> resources]
        /\ MergeDone => index_html.cards = html_content.cards \o CardsOf(resources)

C15_Witness ==
    /\ pc = "aborted"
    /\ MergeDone
    /\ resources # <<>>
    /\ merges = 2
    /\ Len(html_content.cards) >= Len(resources)
    /\ SubSeq(html_content.cards, Len(html_content.cards) - Len(resources) + 1,
              Len(html_content.cards)) = CardsOf(resources)
    /\ SubSeq(index_html.cards, Len(index_html.cards) - Len(resources) + 1,
              Len(index_html.cards)) = CardsOf(resources)
    /\ Len(index_html.cards) = Len(html_content.cards) + Len(resources)

====
